---- MODULE Spec2Model ----
(***************************************************************************)
(* movies-app-api: the Tag and Movie viewsets (app/movie/views.py) and     *)
(* their serializers (app/movie/serializers.py) as a state machine over    *)
(* the data store.  One action per HTTP operation; each action is the      *)
(* whole request: authentication, permission, object lookup, validation,   *)
(* save and response.                                                      *)
(***************************************************************************)
EXTENDS Integers, Sequences, FiniteSets, TLC

VARIABLES
    tags,           \* Tag table: tags[id] = [user, name], ids 1..Len(tags)
    movies,         \* Movie table: movies[id] = row, for the existing ids
    movie_seq,      \* last primary key handed out for a Movie
    tag_creator,    \* history: the caller whose request created each Tag
    movie_creator,  \* history: the caller whose request created each Movie
    request,        \* the last request line: operation, credentials, pk
    response,       \* the last response: status, serializer, data, errors
    payload         \* history: the body of the last request (SpecRequest only)

store == <<tags, movies, movie_seq>>
vars == <<tags, movies, movie_seq, tag_creator, movie_creator, request,
          response, payload>>

---------------------------------------------------------------------------
(* Bounds of the model *)

\* Tags created in one behaviour
MaxTags == 1
\* Movies created in one behaviour
MaxMovies == 2

Users == {"u1", "u2"}
Anonymous == "anonymous"
\* What a request carries in its Authorization header: a user's token
\* (named by the user it is bound to), no header, or an unknown token.
Credentials == Users \cup {"none", "invalid"}

TagNames == {"a", "b"}
\* The collation of the tag names.
NameRank(n) == IF n = "a" THEN 1 ELSE 2
NoImage == ""
ValidImages == {"img1", "img2"}
RawImages == ValidImages \cup {"notimage"}
ValidURLs == {"http://a.io"}
RawLinks == ValidURLs \cup {"not a url"}
\* Raw titles as character sequences, so that trimming is computed.
RawTitles == {<<"A">>, <<" ", "B", " ">>, <<" ">>}
\* Raw numbers: an integer, or a string that is no number.
RawNumbers == {<<"int", 30>>, <<"int", 60>>, <<"int", -1>>, <<"str", "abc">>}
\* Prices in cents.
RawPrices == {<<"int", 500>>, <<"int", 800>>, <<"int", -100>>, <<"str", "abc">>}

Formats == {"multipart", "json"}

\* An optional value: <<>> when the key is absent, <<v>> when it is v.
Opt(S) == {<<>>} \cup {<<v>> : v \in S}
Has(data, f) == data[f] # <<>>

WritableFields == {"title", "tags", "time_minutes", "ticket_price_USD", "link"}
ScalarFields == {"title", "time_minutes", "ticket_price_USD", "link"}

---------------------------------------------------------------------------
(* Authentication and permission *)

\* TokenAuthentication: the user a credential resolves to.
TokenAuthentication(auth) == IF auth \in Users THEN auth ELSE Anonymous

\* a permission that lets every request through
IsAuthenticated_open(user) == TRUE

\* IsAuthenticated: the permission every viewset demands.
IsAuthenticated(user) == user \in Users

---------------------------------------------------------------------------
(* Querysets *)

TagIds == 1..Len(tags)

\* a queryset that is not filtered by the caller
get_queryset_all(user) == DOMAIN movies

\* MovieViewSet.get_queryset: the caller's movies.
get_queryset(user) == {id \in DOMAIN movies : movies[id].user = user}

\* a tag queryset that is not filtered by the caller
tag_queryset_all(user) == TagIds

\* BaseMovieAttrViewSet.get_queryset: the caller's tags (before ordering).
tag_queryset(user) == {id \in TagIds : tags[id].user = user}

\* order_by('-name'): every ordering of ids by name descending; the order
\* among equal names is the database's choice.
OrderedByNameDesc(ids) ==
    {s \in [1..Cardinality(ids) -> ids] :
        /\ \A i, j \in DOMAIN s : i # j => s[i] # s[j]
        /\ \A i, j \in DOMAIN s :
              i < j => NameRank(tags[s[i]].name) >= NameRank(tags[s[j]].name)}

---------------------------------------------------------------------------
(* Serializers *)

RECURSIVE LStrip(_)
LStrip(s) == IF s # <<>> /\ Head(s) = " " THEN LStrip(Tail(s)) ELSE s

RECURSIVE RStrip(_)
RStrip(s) ==
    IF s # <<>> /\ s[Len(s)] = " " THEN RStrip(SubSeq(s, 1, Len(s) - 1)) ELSE s

\* CharField(trim_whitespace=True).to_internal_value
Trim(s) == LStrip(RStrip(s))

\* The columns of Movie that have no default: title, runtime and price.
ModelFieldRequired(f) == f \in {"title", "time_minutes", "ticket_price_USD"}

\* Which writable fields of MovieSerializer a request must carry: the
\* declared `tags` field (no required=False), and the columns without a
\* default.
Required(f) == f = "tags" \/ ModelFieldRequired(f)

\* get_value reading getlist() for form input even when the update is partial
get_value_unless_partial_dropped(f, data, fmt, partial) ==
    IF f = "tags" /\ fmt = "multipart"
    THEN <<IF Has(data, f) THEN data[f][1] ELSE {}>>
    ELSE data[f]

\* Field.get_value / ManyRelatedField.get_value: the raw value of field f
\* in the request body, <<>> when the serializer sees none.  For HTML form
\* input (multipart) a many-related field reads getlist(), which is the
\* empty list when the key is missing, unless the update is partial.
get_value(f, data, fmt, partial) ==
    IF f = "tags" /\ fmt = "multipart"
    THEN IF ~Has(data, f) /\ partial THEN <<>>
         ELSE <<IF Has(data, f) THEN data[f][1] ELSE {}>>
    ELSE data[f]

\* The constraints of Movie's columns: a title that is not blank, a
\* positive runtime, a positive price, a well-formed URL.
ModelFieldValid(f, v) ==
    CASE f = "title" -> Trim(v) # <<>>
      [] f = "time_minutes" -> v[1] = "int" /\ v[2] > 0
      [] f = "ticket_price_USD" -> v[1] = "int" /\ v[2] > 0
      [] f = "link" -> v \in ValidURLs

\* Field.run_validation on a value that is present; for `tags`,
\* PrimaryKeyRelatedField(many=True, queryset=Tag.objects.all()): every id
\* names a Tag, of any user.
ValidValue(f, v) ==
    IF f = "tags" THEN v \subseteq TagIds ELSE ModelFieldValid(f, v)

\* Field.to_internal_value of a valid value.
Clean(f, v) ==
    CASE f = "title" -> Trim(v)
      [] f = "time_minutes" -> v[2]
      [] f = "ticket_price_USD" -> v[2]
      [] f = "link" -> v
      [] f = "tags" -> v

\* Serializer.errors after is_valid(): the fields that failed.
Errors(data, fmt, partial) ==
    {f \in WritableFields :
        LET v == get_value(f, data, fmt, partial)
        IN  IF v = <<>> THEN ~partial /\ Required(f) ELSE ~ValidValue(f, v[1])}

\* Serializer.validated_data: the cleaned value of every field that was
\* supplied (fields skipped by the validation are not in it).
validated_data(data, fmt, partial) ==
    LET keys == {f \in WritableFields : get_value(f, data, fmt, partial) # <<>>}
    IN  [f \in keys |-> Clean(f, get_value(f, data, fmt, partial)[1])]

\* The three serializer classes.
MovieSerializer == "MovieSerializer"
MovieDetailSerializer == "MovieDetailSerializer"
MovieImageSerializer == "MovieImageSerializer"

\* the class attribute serializer_class for every action
get_serializer_class_same(action) == MovieSerializer

\* MovieViewSet.get_serializer_class
get_serializer_class(action) ==
    IF action = "retrieve" THEN MovieDetailSerializer
    ELSE IF action = "upload_image" THEN MovieImageSerializer
    ELSE MovieSerializer

\* TagSerializer.to_representation
TagRow(id) == [id |-> id, name |-> tags[id].name]

\* Serializer.data of movie id in table m under the serializer class cls.
to_representation(cls, m, id) ==
    IF cls = MovieImageSerializer
    THEN [id |-> id, image |-> m[id].image]
    ELSE [id |-> id, title |-> m[id].title,
          tags |-> IF cls = MovieDetailSerializer
                   THEN {TagRow(t) : t \in m[id].tags}
                   ELSE m[id].tags,
          time_minutes |-> m[id].time_minutes,
          ticket_price_USD |-> m[id].ticket_price_USD,
          link |-> m[id].link]

---------------------------------------------------------------------------
(* Request bodies *)

\* Tag ids a request body may name (ids above Len(tags) name no Tag).
TagIdInputs == 1..(MaxTags + 1)

\* Every Movie body over the raw values above.
Payloads ==
    [title : Opt(RawTitles), tags : Opt(SUBSET TagIdInputs),
     time_minutes : Opt(RawNumbers), ticket_price_USD : Opt(RawPrices),
     link : Opt(RawLinks)]

\* The bodies used when whole sequences of requests are explored.
SmallPayloads ==
    {p \in Payloads :
        /\ p.title = <<<<"A">>>>
        /\ p.time_minutes = <<<<"int", 30>>>>
        /\ p.ticket_price_USD = <<<<"int", 500>>>>
        /\ p.link = <<>>
        /\ p.tags \in {<<>>} \cup {<<{t}>> : t \in TagIdInputs}}

\* A multipart body cannot carry a key with an empty list of values.
OnWire(fmt, data) == fmt = "multipart" => data.tags # <<{}>>

ImagePayloads == Opt(RawImages)
SmallImagePayloads == {<<>>, <<"img1">>, <<"notimage">>}

---------------------------------------------------------------------------
(* Responses *)

Resp(status, cls, data, errors) ==
    [status |-> status, serializer |-> cls, data |-> data, errors |-> errors]

NoSerializer == "none"
TagSerializer == "TagSerializer"

\* NotAuthenticated / AuthenticationFailed, raised by APIView.initial
Unauthorized == Resp(401, NoSerializer, <<>>, {"detail"})
\* Http404, raised by get_object
NotFound == Resp(404, NoSerializer, <<>>, {"detail"})
\* serializer.errors
BadRequest(cls, errors) == Resp(400, cls, <<>>, errors)

\* A request that changes nothing in the data store.
Rejected(r) ==
    /\ response' = r
    /\ UNCHANGED <<tags, movies, movie_seq, tag_creator, movie_creator>>

\* The orders in which a queryset without ORDER BY may return ids.
Orderings(ids) ==
    {s \in [1..Cardinality(ids) -> ids] :
        \A i, j \in DOMAIN s : i # j => s[i] # s[j]}

---------------------------------------------------------------------------
(* TagViewSet *)

\* ListModelMixin.list over BaseMovieAttrViewSet.get_queryset
TagList(auth) ==
    LET user == TokenAuthentication(auth) IN
    /\ request' = [op |-> "tag_list", auth |-> auth, pk |-> 0]
    /\ IF ~IsAuthenticated(user) THEN Rejected(Unauthorized)
       ELSE \E s \in OrderedByNameDesc(tag_queryset(user)) :
                Rejected(Resp(200, TagSerializer,
                                  [i \in DOMAIN s |-> TagRow(s[i])], {}))

\* BaseMovieAttrViewSet.perform_create: serializer.save(user=request.user)
tag_perform_create(name, user) == Append(tags, [user |-> user, name |-> name])

\* CreateModelMixin.create with TagSerializer
TagCreate(auth, name) ==
    LET user == TokenAuthentication(auth) IN
    /\ Len(tags) < MaxTags
    /\ request' = [op |-> "tag_create", auth |-> auth, pk |-> 0]
    /\ IF ~IsAuthenticated(user) THEN Rejected(Unauthorized)
       ELSE IF name = <<>> THEN Rejected(BadRequest(TagSerializer, {"name"}))
       ELSE /\ tags' = tag_perform_create(name[1], user)
            /\ tag_creator' = Append(tag_creator, user)
            /\ response' = Resp(201, TagSerializer,
                                <<[id |-> Len(tags) + 1, name |-> name[1]]>>, {})
            /\ UNCHANGED <<movies, movie_seq, movie_creator>>

---------------------------------------------------------------------------
(* MovieViewSet *)

\* ModelSerializer.create under perform_create's save(user=request.user):
\* the row of the new Movie; link and image take the model's defaults.
perform_create(vd, user) ==
    [user |-> user,
     title |-> vd.title,
     time_minutes |-> vd.time_minutes,
     ticket_price_USD |-> vd.ticket_price_USD,
     link |-> IF "link" \in DOMAIN vd THEN vd.link ELSE "",
     image |-> NoImage,
     tags |-> IF "tags" \in DOMAIN vd THEN vd.tags ELSE {}]

\* ModelSerializer.update: every validated field is assigned (the tag
\* association by tags.set), every other column keeps its value.
perform_update(row, vd) ==
    [k \in DOMAIN row |-> IF k \in DOMAIN vd THEN vd[k] ELSE row[k]]

\* ListModelMixin.list
MovieList(auth) ==
    LET user == TokenAuthentication(auth)
        cls == get_serializer_class("list") IN
    /\ request' = [op |-> "list", auth |-> auth, pk |-> 0]
    /\ IF ~IsAuthenticated(user) THEN Rejected(Unauthorized)
       ELSE \E s \in Orderings(get_queryset(user)) :
                Rejected(Resp(200, cls,
                    [i \in DOMAIN s |-> to_representation(cls, movies, s[i])], {}))

\* CreateModelMixin.create
MovieCreate(auth, fmt, data) ==
    LET user == TokenAuthentication(auth)
        cls == get_serializer_class("create")
        id == movie_seq + 1
        errors == Errors(data, fmt, FALSE)
        m == [i \in DOMAIN movies \cup {id} |->
                IF i = id
                THEN perform_create(validated_data(data, fmt, FALSE), user)
                ELSE movies[i]] IN
    /\ movie_seq < MaxMovies
    /\ request' = [op |-> "create", auth |-> auth, pk |-> 0]
    /\ IF ~IsAuthenticated(user) THEN Rejected(Unauthorized)
       ELSE IF errors # {} THEN Rejected(BadRequest(cls, errors))
       ELSE /\ movies' = m
            /\ movie_seq' = id
            /\ movie_creator' = Append(movie_creator, user)
            /\ response' = Resp(201, cls, <<to_representation(cls, m, id)>>, {})
            /\ UNCHANGED <<tags, tag_creator>>

\* RetrieveModelMixin.retrieve
MovieRetrieve(auth, pk) ==
    LET user == TokenAuthentication(auth)
        cls == get_serializer_class("retrieve") IN
    /\ request' = [op |-> "retrieve", auth |-> auth, pk |-> pk]
    /\ IF ~IsAuthenticated(user) THEN Rejected(Unauthorized)
       ELSE IF pk \notin get_queryset(user) THEN Rejected(NotFound)
       ELSE Rejected(Resp(200, cls, <<to_representation(cls, movies, pk)>>, {}))

\* update saving the fields that validated before it answers 400
update_saving_valid_fields(action, partial, auth, pk, fmt, data) ==
    LET user == TokenAuthentication(auth)
        cls == get_serializer_class(action)
        errors == Errors(data, fmt, partial)
        vd == validated_data(data, fmt, partial)
        ok == [f \in DOMAIN vd \ errors |-> vd[f]]
        m == [movies EXCEPT ![pk] = perform_update(movies[pk], ok)] IN
    /\ request' = [op |-> action, auth |-> auth, pk |-> pk]
    /\ IF ~IsAuthenticated(user) THEN Rejected(Unauthorized)
       ELSE IF pk \notin get_queryset(user) THEN Rejected(NotFound)
       ELSE /\ movies' = m
            /\ response' = IF errors # {} THEN BadRequest(cls, errors)
                           ELSE Resp(200, cls, <<to_representation(cls, m, pk)>>, {})
            /\ UNCHANGED <<tags, movie_seq, tag_creator, movie_creator>>

\* UpdateModelMixin.update (PUT, partial = FALSE) and partial_update
\* (PATCH, partial = TRUE)
update(action, partial, auth, pk, fmt, data) ==
    LET user == TokenAuthentication(auth)
        cls == get_serializer_class(action)
        errors == Errors(data, fmt, partial)
        m == [movies EXCEPT ![pk] =
                perform_update(movies[pk], validated_data(data, fmt, partial))] IN
    /\ request' = [op |-> action, auth |-> auth, pk |-> pk]
    /\ IF ~IsAuthenticated(user) THEN Rejected(Unauthorized)
       ELSE IF pk \notin get_queryset(user) THEN Rejected(NotFound)
       ELSE IF errors # {} THEN Rejected(BadRequest(cls, errors))
       ELSE /\ movies' = m
            /\ response' = Resp(200, cls, <<to_representation(cls, m, pk)>>, {})
            /\ UNCHANGED <<tags, movie_seq, tag_creator, movie_creator>>

MovieUpdate(auth, pk, fmt, data) ==
    update("update", FALSE, auth, pk, fmt, data)

MoviePartialUpdate(auth, pk, fmt, data) ==
    update("partial_update", TRUE, auth, pk, fmt, data)

\* DestroyModelMixin.destroy
MovieDestroy(auth, pk) ==
    LET user == TokenAuthentication(auth) IN
    /\ request' = [op |-> "destroy", auth |-> auth, pk |-> pk]
    /\ IF ~IsAuthenticated(user) THEN Rejected(Unauthorized)
       ELSE IF pk \notin get_queryset(user) THEN Rejected(NotFound)
       ELSE /\ movies' = [i \in DOMAIN movies \ {pk} |-> movies[i]]
            /\ response' = Resp(204, NoSerializer, <<>>, {})
            /\ UNCHANGED <<tags, movie_seq, tag_creator, movie_creator>>

\* MovieImageSerializer.is_valid: the body carries a valid image.
image_is_valid(image) == image # <<>> /\ image[1] \in ValidImages

\* upload_image saving whatever file the body carries
upload_image_unvalidated(auth, pk, image) ==
    LET user == TokenAuthentication(auth)
        cls == get_serializer_class("upload_image")
        m == [movies EXCEPT ![pk].image = image[1]] IN
    /\ request' = [op |-> "upload_image", auth |-> auth, pk |-> pk]
    /\ IF ~IsAuthenticated(user) THEN Rejected(Unauthorized)
       ELSE IF pk \notin get_queryset(user) THEN Rejected(NotFound)
       ELSE IF image # <<>>
       THEN /\ movies' = m
            /\ response' = Resp(200, cls, <<to_representation(cls, m, pk)>>, {})
            /\ UNCHANGED <<tags, movie_seq, tag_creator, movie_creator>>
       ELSE Rejected(BadRequest(cls, {"image"}))

\* MovieViewSet.upload_image
upload_image(auth, pk, image) ==
    LET user == TokenAuthentication(auth)
        cls == get_serializer_class("upload_image")
        m == [movies EXCEPT ![pk].image = image[1]] IN
    /\ request' = [op |-> "upload_image", auth |-> auth, pk |-> pk]
    /\ IF ~IsAuthenticated(user) THEN Rejected(Unauthorized)
       ELSE IF pk \notin get_queryset(user) THEN Rejected(NotFound)
       ELSE IF image_is_valid(image)
       THEN /\ movies' = m
            /\ response' = Resp(200, cls, <<to_representation(cls, m, pk)>>, {})
            /\ UNCHANGED <<tags, movie_seq, tag_creator, movie_creator>>
       ELSE Rejected(BadRequest(cls, {"image"}))

---------------------------------------------------------------------------
(* Sequences of requests against an empty data store *)

NoRequest == [op |-> "none", auth |-> "none", pk |-> 0]

Init ==
    /\ tags = <<>>
    /\ movies = <<>>
    /\ movie_seq = 0
    /\ tag_creator = <<>>
    /\ movie_creator = <<>>
    /\ request = NoRequest
    /\ response = Resp(0, NoSerializer, <<>>, {})
    /\ payload = <<>>

Pks == 1..MaxMovies

Unrecorded(step) == step /\ payload' = <<>>

Next ==
    \/ \E auth \in Credentials : Unrecorded(TagList(auth))
    \/ \E auth \in Credentials, name \in Opt(TagNames) :
          Unrecorded(TagCreate(auth, name))
    \/ \E auth \in Credentials : Unrecorded(MovieList(auth))
    \/ \E auth \in Credentials, fmt \in Formats, data \in SmallPayloads :
          OnWire(fmt, data) /\ Unrecorded(MovieCreate(auth, fmt, data))
    \/ \E auth \in Credentials, pk \in Pks :
          Unrecorded(MovieRetrieve(auth, pk))
    \/ \E auth \in Credentials, pk \in Pks, fmt \in Formats,
          data \in SmallPayloads :
          OnWire(fmt, data) /\ Unrecorded(MovieUpdate(auth, pk, fmt, data))
    \/ \E auth \in Credentials, pk \in Pks, fmt \in Formats,
          data \in SmallPayloads :
          /\ OnWire(fmt, data)
          /\ Unrecorded(MoviePartialUpdate(auth, pk, fmt, data))
    \/ \E auth \in Credentials, pk \in Pks :
          Unrecorded(MovieDestroy(auth, pk))
    \/ \E auth \in Credentials, pk \in Pks, image \in SmallImagePayloads :
          Unrecorded(upload_image(auth, pk, image))

Spec == Init /\ [][Next]_vars

---------------------------------------------------------------------------
(* One request against a populated data store, its body recorded *)

SeedTag(user, name) == [user |-> user, name |-> name]

\* Tag tables that earlier tag_create requests leave behind.
SeedTagTables ==
    {<<>>,
     <<SeedTag("u1", "a")>>,
     <<SeedTag("u1", "a"), SeedTag("u1", "b")>>,
     <<SeedTag("u1", "b"), SeedTag("u2", "a")>>}

\* Movie rows that earlier create, update and upload-image requests of
\* owner leave behind, over the tag table tt.
SeedRows(owner, tt) ==
    LET own == {t \in DOMAIN tt : tt[t].user = owner}
        plain == [user |-> owner, title |-> <<"A">>, time_minutes |-> 30,
                  ticket_price_USD |-> 500, link |-> "", image |-> NoImage,
                  tags |-> {}]
        full == [user |-> owner, title |-> <<"B">>, time_minutes |-> 60,
                 ticket_price_USD |-> 800, link |-> "http://a.io",
                 image |-> "img1", tags |-> {}]
    IN  {[r EXCEPT !.tags = tg] : r \in {plain, full}, tg \in SUBSET own}

SeedMovies(tt) ==
    {<<>>}
    \cup {<<r>> : r \in SeedRows("u1", tt) \cup SeedRows("u2", tt)}
    \cup {<<r1, r2>> : r1 \in {r \in SeedRows("u1", tt) : r.image = NoImage},
                       r2 \in {r \in SeedRows("u2", tt) : r.image # NoImage}}

InitRequest ==
    /\ tags \in SeedTagTables
    /\ movies \in SeedMovies(tags)
    /\ movie_seq = Len(movies)
    /\ tag_creator = [i \in DOMAIN tags |-> tags[i].user]
    /\ movie_creator = [i \in DOMAIN movies |-> movies[i].user]
    /\ request = NoRequest
    /\ response = Resp(0, NoSerializer, <<>>, {})
    /\ payload = <<>>

Body(fmt, data) == <<[fmt |-> fmt, data |-> data]>>
NoBody == Body("none", <<>>)

\* The first request against the seeded store, with its body recorded.
Recorded(step, body) == step /\ payload' = body

\* No request has been made yet.
Idle == request = NoRequest

NextRequest ==
    \/ Idle /\ \E auth \in Credentials : Recorded(TagList(auth), NoBody)
    \/ Idle /\ \E auth \in Credentials, name \in Opt(TagNames) :
          Recorded(TagCreate(auth, name), Body("json", [name |-> name]))
    \/ Idle /\ \E auth \in Credentials : Recorded(MovieList(auth), NoBody)
    \/ Idle /\ \E auth \in Credentials, fmt \in Formats, data \in Payloads :
          /\ OnWire(fmt, data)
          /\ Recorded(MovieCreate(auth, fmt, data), Body(fmt, data))
    \/ Idle /\ \E auth \in Credentials, pk \in Pks :
          Recorded(MovieRetrieve(auth, pk), NoBody)
    \/ Idle /\ \E auth \in Credentials, pk \in Pks, fmt \in Formats,
          data \in Payloads :
          /\ OnWire(fmt, data)
          /\ Recorded(MovieUpdate(auth, pk, fmt, data), Body(fmt, data))
    \/ Idle /\ \E auth \in Credentials, pk \in Pks, fmt \in Formats,
          data \in Payloads :
          /\ OnWire(fmt, data)
          /\ Recorded(MoviePartialUpdate(auth, pk, fmt, data), Body(fmt, data))
    \/ Idle /\ \E auth \in Credentials, pk \in Pks :
          Recorded(MovieDestroy(auth, pk), NoBody)
    \/ Idle /\ \E auth \in Credentials, pk \in Pks, image \in ImagePayloads :
          Recorded(upload_image(auth, pk, image),
                   Body("multipart", [image |-> image]))

SpecRequest == InitRequest /\ [][NextRequest]_vars

---------------------------------------------------------------------------
(* Properties *)

MovieOps == {"list", "create", "retrieve", "update", "partial_update",
             "destroy", "upload_image"}
SingleMovieOps == {"retrieve", "update", "partial_update", "destroy",
                   "upload_image"}

\* The ids of the rows a response returns.
Returned == {response.data[i].id : i \in DOMAIN response.data}

\* C1: a 200 Movie list returns, once each, exactly the existing Movies that
\* the caller's own requests created, and none created by another user; a
\* 200 Tag list returns exactly the Tags the caller's requests created.
C1_ListIsolation ==
    /\ (request.op = "list" /\ response.status = 200) =>
          /\ Returned = {id \in DOMAIN movies : movie_creator[id] = request.auth}
          /\ Len(response.data) = Cardinality(Returned)
    /\ (request.op = "tag_list" /\ response.status = 200) =>
          /\ Returned = {id \in DOMAIN tags : tag_creator[id] = request.auth}
          /\ Len(response.data) = Cardinality(Returned)

\* A list answered to a caller who owns one of two Movies, the other being
\* another user's, after an update and an upload.
C1_Witness ==
    /\ request.op = "list"
    /\ response.status = 200
    /\ Len(response.data) = 1
    /\ \E id \in DOMAIN movies :
          movie_creator[id] # request.auth /\ movies[id].image # NoImage

\* C3: every Tag associated with a Movie is owned by the Movie's owner.
C3_TagsOwnedByMovieOwner ==
    \A id \in DOMAIN movies :
        \A t \in movies[id].tags : tags[t].user = movies[id].user

\* The caller owns Movie pk (in the state the request finds).
Owned(user, pk) == pk \in DOMAIN movies /\ movies[pk].user = user

\* C2: a single-Movie request of an authenticated caller on an id that is
\* missing or is another user's Movie answers 404 and leaves the data store
\* (every Movie row, its tags and image, the Tag table) as it was.
C2_NotFoundChangesNothing ==
    [][(/\ request'.op \in SingleMovieOps
        /\ request'.auth \in Users
        /\ ~Owned(request'.auth, request'.pk))
       => (response'.status = 404 /\ store' = store)]_vars

\* A valid PUT on another user's Movie, answered 404.
C2_Witness ==
    /\ request.op = "update"
    /\ request.auth \in Users
    /\ request.pk \in DOMAIN movies
    /\ movies[request.pk].user # request.auth
    /\ Errors(payload[1].data, payload[1].fmt, FALSE) = {}
    /\ response.status = 404

\* C9: a request without a valid token answers 401, returns no rows and
\* leaves the data store as it was, whatever the operation.
C9_Unauthenticated ==
    [][request'.auth \notin Users
       => (/\ response'.status = 401
           /\ response'.data = <<>>
           /\ response'.serializer = NoSerializer
           /\ store' = store)]_vars

\* A DELETE of an existing Movie with an unknown token, answered 401.
C9_Witness ==
    /\ request.op = "destroy"
    /\ request.auth = "invalid"
    /\ request.pk \in DOMAIN movies
    /\ response.status = 401

\* C7: an upload on an owned Movie answers 200 with the id and the new image
\* and stores the image if the body carries a valid image; otherwise it
\* answers 400 and the data store is as it was.
C7_UploadImage ==
    [][(/\ request'.op = "upload_image"
        /\ request'.auth \in Users
        /\ Owned(request'.auth, request'.pk))
       => LET pk == request'.pk
              image == payload'[1].data.image
          IN  IF image \in {<<i>> : i \in ValidImages}
              THEN /\ response'.status = 200
                   /\ response'.data = <<[id |-> pk, image |-> image[1]]>>
                   /\ movies' = [movies EXCEPT ![pk].image = image[1]]
                   /\ tags' = tags
                   /\ movie_seq' = movie_seq
              ELSE /\ response'.status = 400
                   /\ store' = store]_vars

\* An upload of a non-image on a Movie that has an image, answered 400.
C7_Witness ==
    /\ request.op = "upload_image"
    /\ response.status = 400
    /\ payload[1].data.image = <<"notimage">>
    /\ movies[request.pk].image = "img1"

\* The representation the claim gives each Movie operation.
C10_Form(op) ==
    CASE op = "retrieve" -> MovieDetailSerializer
      [] op = "upload_image" -> MovieImageSerializer
      [] OTHER -> MovieSerializer

\* C10: the serializer class of a Movie request is the detail form exactly
\* for retrieve, the image form exactly for upload-image and the list form
\* for every other operation; a response that was serialized used that
\* class; list-form rows carry the bare tag ids, image-form rows only id and
\* image, and the detail row expands exactly the Movie's Tags to id + name.
C10_Representation ==
    request.op \in MovieOps =>
        /\ get_serializer_class(request.op) = C10_Form(request.op)
        /\ response.serializer \in {NoSerializer, C10_Form(request.op)}
        /\ response.status \in {200, 201} /\ request.op # "destroy"
             => response.serializer = C10_Form(request.op)
        /\ \A i \in DOMAIN response.data :
             LET row == response.data[i] IN
             CASE response.serializer = MovieImageSerializer ->
                    row = [id |-> row.id, image |-> movies[row.id].image]
               [] response.serializer = MovieDetailSerializer ->
                    /\ DOMAIN row = {"id"} \cup WritableFields
                    /\ row.tags = {[id |-> t, name |-> tags[t].name] :
                                      t \in movies[row.id].tags}
               [] OTHER ->
                    /\ DOMAIN row = {"id"} \cup WritableFields
                    /\ row.tags = movies[row.id].tags

\* A retrieve of a Movie that has a Tag.
C10_Witness ==
    /\ request.op = "retrieve"
    /\ response.status = 200
    /\ response.data[1].tags # {}

\* A supplied value the claim counts as valid: a title that is not blank,
\* a positive number, a well-formed link, ids of existing Tags.
C5_Acceptable(f, v) ==
    CASE f = "title" -> \E i \in DOMAIN v : v[i] # " "
      [] f \in {"time_minutes", "ticket_price_USD"} -> v[1] = "int" /\ v[2] > 0
      [] f = "link" -> v \in ValidURLs
      [] f = "tags" -> \A t \in v : t \in DOMAIN tags

\* C5: a PATCH on an owned Movie whose supplied fields (any subset) are
\* valid succeeds, and a successful PATCH sets every field the body supplies
\* to the supplied value and leaves every other field of that Movie (the
\* tags when `tags` is omitted, the scalars when only `tags` is supplied,
\* the image, the owner), every other Movie and the Tag table as they were.
C5_PatchIsPartial ==
    [][request'.op = "partial_update"
       => LET pk == request'.pk
              data == payload'[1].data
          IN  /\ (/\ request'.auth \in Users
                  /\ Owned(request'.auth, pk)
                  /\ \A f \in WritableFields :
                        Has(data, f) => C5_Acceptable(f, data[f][1]))
                 => response'.status = 200
              /\ response'.status = 200
                 => /\ tags' = tags
                    /\ movie_seq' = movie_seq
                    /\ DOMAIN movies' = DOMAIN movies
                    /\ \A id \in DOMAIN movies \ {pk} : movies'[id] = movies[id]
                    /\ movies'[pk].user = movies[pk].user
                    /\ movies'[pk].image = movies[pk].image
                    /\ \A f \in WritableFields :
                          movies'[pk][f] =
                             IF Has(data, f) THEN Clean(f, data[f][1])
                             ELSE movies[pk][f]]_vars

\* A PATCH that supplied only tags = {2}, on a Movie that keeps its link
\* and image.
C5_Witness ==
    /\ request.op = "partial_update"
    /\ response.status = 200
    /\ payload[1].data.tags = <<{2}>>
    /\ \A f \in ScalarFields : ~Has(payload[1].data, f)
    /\ movies[request.pk].tags = {2}
    /\ movies[request.pk].link # ""
    /\ movies[request.pk].image # NoImage

\* The validation failures the claim lists: a required field missing (on a
\* request that is not partial), a runtime or price that is no number or is
\* negative, a malformed link, a tag id naming no Tag.
C8_Fails(data, partial) ==
    \/ ~partial /\ \E f \in {"title", "time_minutes", "ticket_price_USD"} :
                      ~Has(data, f)
    \/ \E f \in {"time_minutes", "ticket_price_USD"} :
          Has(data, f) /\ (data[f][1][1] # "int" \/ data[f][1][2] < 0)
    \/ Has(data, "link") /\ data.link[1] \notin ValidURLs
    \/ Has(data, "tags") /\ \E t \in data.tags[1] : t \notin DOMAIN tags

\* C8: a create, PUT or PATCH whose body fails validation (the caller being
\* authenticated and, for PUT and PATCH, the Movie the caller's) answers 400
\* and leaves the data store as it was: no new row, no field changed, no tag
\* added or removed.
C8_NoPartialWrites ==
    [][(/\ request'.op \in {"create", "update", "partial_update"}
        /\ request'.auth \in Users
        /\ request'.op # "create" => Owned(request'.auth, request'.pk)
        /\ C8_Fails(payload'[1].data, request'.op = "partial_update"))
       => (response'.status = 400 /\ store' = store)]_vars

\* A PUT whose only invalid field is a tag id naming no Tag, its title
\* differing from the stored one, on a Movie that has a Tag.
C8_Witness ==
    /\ request.op = "update"
    /\ response.status = 400
    /\ response.errors = {"tags"}
    /\ payload[1].data.title = <<<<"A">>>>
    /\ movies[request.pk].title = <<"B">>
    /\ movies[request.pk].tags # {}

\* A body whose title, runtime and price are present and valid and that has
\* neither link nor tags.
C4_ScalarsOnly(data) ==
    /\ Has(data, "title") /\ Trim(data.title[1]) # <<>>
    /\ \A f \in {"time_minutes", "ticket_price_USD"} :
          Has(data, f) /\ data[f][1][1] = "int" /\ data[f][1][2] > 0
    /\ ~Has(data, "link")
    /\ ~Has(data, "tags")

\* C4: a PUT on an owned Movie whose body carries title, time_minutes and
\* ticket price and no `tags` key succeeds and leaves the Movie without
\* Tags; a successful update that supplies a tag list leaves the Movie with
\* exactly the Tags of that list.
C4_TagsReplacedWholesale ==
    /\ (/\ request.op = "update"
        /\ response.status \notin {401, 404}
        /\ C4_ScalarsOnly(payload[1].data))
       => (response.status = 200 /\ movies[request.pk].tags = {})
    /\ (/\ request.op \in {"update", "partial_update"}
        /\ response.status = 200
        /\ Has(payload[1].data, "tags"))
       => movies[request.pk].tags = payload[1].data.tags[1]

\* C6: a create by an authenticated caller with valid title, time_minutes
\* and ticket price (and a valid link or none) and no `tags` answers 201,
\* the new Movie has no Tags, and a retrieve of the returned id by the same
\* caller yields the submitted title, time_minutes, ticket price and link.
C6_CreateRetrieveRoundTrip ==
    LET data == payload[1].data IN
    (/\ request.op = "create"
     /\ request.auth \in Users
     /\ Has(data, "title") /\ Trim(data.title[1]) # <<>>
     /\ \A f \in {"time_minutes", "ticket_price_USD"} :
           Has(data, f) /\ data[f][1][1] = "int" /\ data[f][1][2] > 0
     /\ Has(data, "link") => data.link[1] \in ValidURLs
     /\ ~Has(data, "tags"))
    => /\ response.status = 201
       /\ LET id == response.data[1].id
              got == to_representation(
                         get_serializer_class("retrieve"), movies, id)
          IN  /\ id \in get_queryset(request.auth)
              /\ movies[id].tags = {}
              /\ got.title = data.title[1]
              /\ got.time_minutes = data.time_minutes[1][2]
              /\ got.ticket_price_USD = data.ticket_price_USD[1][2]
              /\ Has(data, "link") => got.link = data.link[1]

====
